---- MODULE Spec2Model ----
(***************************************************************************)
(* Model of the Mask R-CNN post-processing utilities:                      *)
(*   src/nms/pth_nms.py        pth_nms (score sort + native NMS kernels)   *)
(*   src/mrcnn/utils/utils.py  box geometry, IoU, image meta codec,        *)
(*                             unmold_detections / remove_zero_area,       *)
(*                             resize_image / resize_mask, to_img_domain   *)
(*                                                                         *)
(* Every component is a pure function, so each has its own specification:  *)
(* Init draws the call's inputs from bounded sets, one action per call     *)
(* applies the function and stores what it returns (or the exception it    *)
(* raises).  The variables of the components a specification does not      *)
(* exercise stay at Idle.                                                  *)
(*                                                                         *)
(* Conventions                                                             *)
(*   - tensors and arrays are sequences; Python index k is TLA+ index k+1, *)
(*     so a tensor of indices (order, keep) holds values 1..N here;       *)
(*   - a rational q is a pair <<num, den>>; comparisons cross-multiply.    *)
(***************************************************************************)
EXTENDS Integers, Sequences, FiniteSets, TLC

VARIABLES
    \* ---- pth_nms (src/nms/pth_nms.py) ----
    dets,        \* the [N, 5] tensor: rows <<y1, x1, y2, x2, score>>
    thresh,      \* the IoU threshold, a rational <<num, den>>
    nms_pc,      \* "call" | "cpu_done" | "done" | "idle"
    keep_cpu,    \* what pth_nms returned for dets on the CPU
    keep_cuda,   \* what pth_nms returned for the same dets on the GPU
    gpu_input,   \* the tensor the CUDA path handed to nms.gpu_nms
    \* ---- compute_overlaps / compute_iou (utils.py) ----
    boxes1,      \* first box array, rows <<y1, x1, y2, x2>>
    boxes2,      \* second box array
    iou_pc,      \* "call" | "first_done" | "done" | "idle"
    overlaps12,  \* compute_overlaps(boxes1, boxes2)
    overlaps21,  \* compute_overlaps(boxes2, boxes1)
    \* ---- compose_image_meta / parse_image_meta (utils.py) ----
    meta_args,   \* per image the arguments of compose_image_meta
    image_metas, \* np.stack of the composed records: [batch, meta length]
    parsed,      \* what parse_image_meta(image_metas) returned
    meta_pc,     \* "call" | "composed" | "done" | "idle"
    \* ---- apply_box_deltas / box_refinement (utils.py) ----
    anchor,      \* the box b, <<y1, x1, y2, x2>>
    deltas,      \* the deltas d, <<dy, dx, dh, dw>>
    refined,     \* apply_box_deltas(b, d)
    recovered,   \* box_refinement(b, refined)
    delta_pc,    \* "call" | "applied" | "done" | "idle"
    \* ---- unmold_detections (utils.py) ----
    detections,  \* [N, 6] rows <<y1, x1, y2, x2, class_id, score>>
    mrcnn_mask,  \* [N, h, w, num_classes]: mrcnn_mask[i][c] names a mask
    image_shape, \* <<height, width, depth>> of the original image
    window,      \* <<y1, x1, y2, x2>> of the image inside the canvas
    unmolded,    \* what unmold_detections returned or raised
    unmold_pc,   \* "call" | "done" | "idle"
    \* ---- resize_image / resize_mask (utils.py) ----
    resize_args, \* the arguments image (its <<h, w>>), min_dim, max_dim,
                 \* min_scale, mode of resize_image
    resize_then, \* the caller's next call: "again" | "other" | "mask"
    resized,     \* what resize_image returned or raised
    resized_again,     \* the same call made a second time
    other_max_dim,     \* another value for max_dim
    resized_other_max, \* the same call with max_dim = other_max_dim
    resized_mask,      \* resize_mask of an h x w mask with resized's values
    resize_pc,   \* "call" | "resized" | "again" | "other" | "masked" | "idle"
    \* ---- to_img_domain (utils.py) ----
    domain_boxes,  \* [N, 4] rows <<y1, x1, y2, x2>> in window coordinates
    domain_window, \* <<y1, x1, y2, x2>>
    domain_shape,  \* <<height, width, depth>> of the original image
    in_img_domain, \* what to_img_domain returned
    domain_pc      \* "call" | "done" | "idle"

nms_vars == <<dets, thresh, nms_pc, keep_cpu, keep_cuda, gpu_input>>
iou_vars == <<boxes1, boxes2, iou_pc, overlaps12, overlaps21>>
meta_vars == <<meta_args, image_metas, parsed, meta_pc>>
delta_vars == <<anchor, deltas, refined, recovered, delta_pc>>
unmold_vars ==
    <<detections, mrcnn_mask, image_shape, window, unmolded, unmold_pc>>

resize_vars ==
    <<resize_args, resize_then, resized, resized_again, other_max_dim,
      resized_other_max, resized_mask, resize_pc>>
domain_vars ==
    <<domain_boxes, domain_window, domain_shape, in_img_domain, domain_pc>>

Idle == "idle"
None == "None"

----------------------------------------------------------------------------
(* Generic helpers *)

Max(a, b) == IF a >= b THEN a ELSE b
Min(a, b) == IF a <= b THEN a ELSE b

Range(s) == {s[i] : i \in 1..Len(s)}

\* All sequences over S of length 0..n
SeqsUpTo(S, n) == UNION {[1..k -> S] : k \in 0..n}

\* All permutations of 1..n, as sequences
Perms(n) == {p \in [1..n -> 1..n] : \A i, j \in 1..n : p[i] = p[j] => i = j}

----------------------------------------------------------------------------
(* Bounds of the NMS inputs *)

MaxBoxes == 3      \* at most this many rows in dets

\* the index permutations of every tensor length that occurs
IndexPerms == [n \in 0..MaxBoxes |-> Perms(n)]

\* pixel coordinates (inclusive extents) and scores of the rows drawn
NmsCoords == {0, 1}
NmsScores == {1, 2, 3}

\* thresholds t in [0,1], all exactly representable as floats
Thresholds == {<<0, 1>>, <<1, 2>>}

\* one row of dets: (y1, x1, y2, x2, score), y1 <= y2, x1 <= x2; the rows
\* drawn start at the left image border
DetRows ==
    {<<y1, 0, y2, x2, s>> :
        y1 \in NmsCoords, y2 \in NmsCoords, x2 \in NmsCoords, s \in NmsScores}

ValidDetRows == {r \in DetRows : r[1] <= r[3] /\ r[2] <= r[4]}

----------------------------------------------------------------------------
(* Native kernels (nms/_ext, not part of the Python sources) *)

\* float division inter / union compared with t: x/0 is +inf for x > 0 and
\* nan for x = 0; nan > t is false
OvrExceeds(inter, union, t) ==
    IF union > 0 THEN inter * t[2] > t[1] * union
    ELSE IF union = 0 THEN inter > 0
    ELSE inter < 0

\* the kernels read columns 1..4 of a row as (x1, y1, x2, y2)
KernelInter(bi, bj) ==
    LET w == Max(0, Min(bi[3], bj[3]) - Max(bi[1], bj[1]) + 1)
        h == Max(0, Min(bi[4], bj[4]) - Max(bi[2], bj[2]) + 1)
    IN  w * h

KernelArea(b) == (b[3] - b[1] + 1) * (b[4] - b[2] + 1)

\* strict greedy suppression over the candidate indices `rem`, in that order
RECURSIVE GreedyKeep(_, _, _, _, _)
GreedyKeep(rem, kept, boxes, area, t) ==
    IF rem = <<>> THEN kept
    ELSE LET i == Head(rem)
             survives(j) ==
                 LET inter == KernelInter(boxes[i], boxes[j])
                 IN  ~OvrExceeds(inter, area[i] + area[j] - inter, t)
         IN  GreedyKeep(SelectSeq(Tail(rem), survives),
                        Append(kept, i), boxes, area, t)

\* nms.cpu_nms(keep, num_out, dets, order, areas, thresh): visits the rows in
\* `order`, uses the caller's areas, returns original row indices
cpu_nms(boxes, order, area, t) == GreedyKeep(order, <<>>, boxes, area, t)

\* nms.gpu_nms(keep, num_out, boxes, thresh): visits the rows in the order
\* given (they are expected sorted by score), computes the areas itself,
\* returns the indices of the rows it kept
gpu_nms(boxes, t) ==
    GreedyKeep([i \in 1..Len(boxes) |-> i], <<>>, boxes,
               [i \in 1..Len(boxes) |-> KernelArea(boxes[i])], t)

----------------------------------------------------------------------------
(* pth_nms *)

\* dets[:, c] for the Python column c (0-based)
Column(d, c) == [i \in 1..Len(d) |-> d[i][c + 1]]

\* areas = (x2 - x1 + 1) * (y2 - y1 + 1)
Areas(d) ==
    LET x1 == Column(d, 1)
        y1 == Column(d, 0)
        x2 == Column(d, 3)
        y2 == Column(d, 2)
    IN  [i \in 1..Len(d) |-> (x2[i] - x1[i] + 1) * (y2[i] - y1[i] + 1)]

\* the sort with descending=False
AscendingOrders(scores) ==
    {p \in IndexPerms[Len(scores)] :
        \A i \in 1..(Len(scores) - 1) : scores[p[i]] <= scores[p[i + 1]]}

\* scores.sort(0, descending=True)[1]: the order among equal scores is
\* not specified, every permutation sorted by descending score can result
SortOrders(scores) ==
    {p \in IndexPerms[Len(scores)] :
        \A i \in 1..(Len(scores) - 1) : scores[p[i]] >= scores[p[i + 1]]}

\* dets[:, [1, 0, 3, 2, 4]]
SwapAxes(d) == [i \in 1..Len(d) |-> <<d[i][2], d[i][1], d[i][4], d[i][3], d[i][5]>>]

\* the `not dets.is_cuda` branch
PthNmsCpuResult(d, t, order) == cpu_nms(d, order, Areas(d), t)

\* the tensor the CUDA branch hands to the kernel: dets_temp is built from
\* dets before `dets = dets[order]`, so its rows are in the caller's order
GpuKernelInput(d, order) == SwapAxes(d)

\* the CUDA branch: order[keep[:num_out]]
PthNmsCudaResult(d, t, order) ==
    LET keep == gpu_nms(GpuKernelInput(d, order), t)
    IN  [k \in 1..Len(keep) |-> order[keep[k]]]

NmsIdle ==
    /\ dets = Idle /\ thresh = Idle /\ nms_pc = Idle
    /\ keep_cpu = Idle /\ keep_cuda = Idle /\ gpu_input = Idle

NmsInit ==
    /\ dets \in SeqsUpTo(ValidDetRows, MaxBoxes)
    /\ thresh \in Thresholds
    /\ nms_pc = "call"
    /\ keep_cpu = None
    /\ keep_cuda = None
    /\ gpu_input = None

\* pth_nms(dets, thresh) with dets on the CPU
PthNmsCpu ==
    /\ nms_pc = "call"
    /\ \E order \in SortOrders(Column(dets, 4)) :
           keep_cpu' = PthNmsCpuResult(dets, thresh, order)
    /\ nms_pc' = "cpu_done"
    /\ UNCHANGED <<dets, thresh, keep_cuda, gpu_input>>
    /\ UNCHANGED <<iou_vars, meta_vars, delta_vars, unmold_vars>>
    /\ UNCHANGED <<resize_vars, domain_vars>>

\* pth_nms(dets.cuda(), thresh): the same boxes, scores and threshold
PthNmsCuda ==
    /\ nms_pc = "cpu_done"
    /\ \E order \in SortOrders(Column(dets, 4)) :
           /\ gpu_input' = GpuKernelInput(dets, order)
           /\ keep_cuda' = PthNmsCudaResult(dets, thresh, order)
    /\ nms_pc' = "done"
    /\ UNCHANGED <<dets, thresh, keep_cpu>>
    /\ UNCHANGED <<iou_vars, meta_vars, delta_vars, unmold_vars>>
    /\ UNCHANGED <<resize_vars, domain_vars>>

NmsNext == PthNmsCpu \/ PthNmsCuda

----------------------------------------------------------------------------
(* compute_iou / compute_overlaps *)

\* A float is a pair <<n, d>>: the rational n/d when d > 0, and for d = 0
\* what the division by zero produces: <<0, 0>> nan, <<1, 0>> +inf,
\* <<-1, 0>> -inf.
NaN == <<0, 0>>

\* numerator / denominator as numpy divides
Divide(n, d) ==
    IF d > 0 THEN <<n, d>>
    ELSE IF d < 0 THEN <<-n, -d>>
    ELSE IF n > 0 THEN <<1, 0>>
    ELSE IF n < 0 THEN <<-1, 0>>
    ELSE NaN

\* a == b on floats: nan equals nothing, not even itself
FloatEq(a, b) ==
    IF a[2] > 0 /\ b[2] > 0 THEN a[1] * b[2] = b[1] * a[2]
    ELSE a[2] = 0 /\ b[2] = 0 /\ a[1] # 0 /\ a[1] = b[1]

FloatIsInt(a, k) == a[2] > 0 /\ a[1] = k * a[2]

FloatInUnitInterval(a) == a[2] > 0 /\ 0 <= a[1] /\ a[1] <= a[2]

MaxOverlapBoxes == 2    \* each box array has 1..MaxOverlapBoxes rows

\* the (y1, y2) and (x1, x2) extents of the boxes drawn
IouYSpans == {<<0, 0>>, <<0, 1>>, <<0, 2>>, <<1, 2>>}
IouXSpans == {<<0, 1>>, <<0, 2>>}

IouBoxes == {<<ys[1], xs[1], ys[2], xs[2]>> : ys \in IouYSpans, xs \in IouXSpans}

NonEmptySeqsUpTo(S, n) == UNION {[1..k -> S] : k \in 1..n}

\* compute_iou without the clamp of negative extents to 0
compute_iou_unclamped(box, boxes, box_area, boxes_area) ==
    [k \in 1..Len(boxes) |->
        LET y1 == Max(box[1], boxes[k][1])
            y2 == Min(box[3], boxes[k][3])
            x1 == Max(box[2], boxes[k][2])
            x2 == Min(box[4], boxes[k][4])
            intersection == (x2 - x1) * (y2 - y1)
            union == box_area + boxes_area[k] - intersection
        IN  Divide(intersection, union)]

\* compute_iou with the intersection left in the union
compute_iou_sum_union(box, boxes, box_area, boxes_area) ==
    [k \in 1..Len(boxes) |->
        LET y1 == Max(box[1], boxes[k][1])
            y2 == Min(box[3], boxes[k][3])
            x1 == Max(box[2], boxes[k][2])
            x2 == Min(box[4], boxes[k][4])
            intersection == Max(x2 - x1, 0) * Max(y2 - y1, 0)
            union == box_area + boxes_area[k]
        IN  Divide(intersection, union)]

compute_iou(box, boxes, box_area, boxes_area) ==
    [k \in 1..Len(boxes) |->
        LET y1 == Max(box[1], boxes[k][1])
            y2 == Min(box[3], boxes[k][3])
            x1 == Max(box[2], boxes[k][2])
            x2 == Min(box[4], boxes[k][4])
            intersection == Max(x2 - x1, 0) * Max(y2 - y1, 0)
            union == box_area + boxes_area[k] - intersection
        IN  Divide(intersection, union)]

\* (boxes[:, 2] - boxes[:, 0]) * (boxes[:, 3] - boxes[:, 1])
BoxAreas(boxes) ==
    [k \in 1..Len(boxes) |->
        (boxes[k][3] - boxes[k][1]) * (boxes[k][4] - boxes[k][2])]

\* overlaps[r][c]: column c is compute_iou(b2[c], b1, area2[c], area1)
compute_overlaps(b1, b2) ==
    LET area1 == BoxAreas(b1)
        area2 == BoxAreas(b2)
    IN  [r \in 1..Len(b1) |->
            [c \in 1..Len(b2) |-> compute_iou(b2[c], b1, area2[c], area1)[r]]]

IouIdle ==
    /\ boxes1 = Idle /\ boxes2 = Idle /\ iou_pc = Idle
    /\ overlaps12 = Idle /\ overlaps21 = Idle

IouInit ==
    /\ boxes1 \in NonEmptySeqsUpTo(IouBoxes, MaxOverlapBoxes)
    /\ boxes2 \in NonEmptySeqsUpTo(IouBoxes, MaxOverlapBoxes)
    /\ iou_pc = "call"
    /\ overlaps12 = None
    /\ overlaps21 = None

\* compute_overlaps(boxes1, boxes2)
ComputeOverlaps12 ==
    /\ iou_pc = "call"
    /\ overlaps12' = compute_overlaps(boxes1, boxes2)
    /\ iou_pc' = "first_done"
    /\ UNCHANGED <<boxes1, boxes2, overlaps21>>
    /\ UNCHANGED <<nms_vars, meta_vars, delta_vars, unmold_vars>>
    /\ UNCHANGED <<resize_vars, domain_vars>>

\* compute_overlaps(boxes2, boxes1)
ComputeOverlaps21 ==
    /\ iou_pc = "first_done"
    /\ overlaps21' = compute_overlaps(boxes2, boxes1)
    /\ iou_pc' = "done"
    /\ UNCHANGED <<boxes1, boxes2, overlaps12>>
    /\ UNCHANGED <<nms_vars, meta_vars, delta_vars, unmold_vars>>
    /\ UNCHANGED <<resize_vars, domain_vars>>

IouNext == ComputeOverlaps12 \/ ComputeOverlaps21

----------------------------------------------------------------------------
(* compose_image_meta / parse_image_meta *)

MaxBatch == 2          \* images per batch, 1..MaxBatch
MetaNumClasses == 2    \* length of active_class_ids (config.NUM_CLASSES)

MetaImageIds == {0, 7}
MetaShapes == {<<2, 3, 3>>, <<4, 5, 1>>}
MetaWindows == {<<0, 0, 2, 3>>, <<1, 6, 4, 8>>}

MetaArgs ==
    [image_id : MetaImageIds, image_shape : MetaShapes, window : MetaWindows,
     active_class_ids : [1..MetaNumClasses -> {0, 1}]]

\* Python's seq[lo:hi] (0-based, hi exclusive)
Slice(seq, lo, hi) == SubSeq(seq, lo + 1, Min(hi, Len(seq)))

\* [image_id] + list(image_shape) + list(window) + list(active_class_ids)
compose_image_meta(image_id, shape, win, active_class_ids) ==
    <<image_id>> \o shape \o win \o active_class_ids

\* parse_image_meta with the window sliced one column early, meta[:, 3:7]
parse_image_meta_shifted(meta) ==
    [image_id |-> [i \in 1..Len(meta) |-> meta[i][1]],
     image_shape |-> [i \in 1..Len(meta) |-> Slice(meta[i], 1, 4)],
     window |-> [i \in 1..Len(meta) |-> Slice(meta[i], 3, 7)],
     active_class_ids |->
         [i \in 1..Len(meta) |-> Slice(meta[i], 8, Len(meta[i]))]]

\* meta[:, 0], meta[:, 1:4], meta[:, 4:8], meta[:, 8:]
parse_image_meta(meta) ==
    [image_id |-> [i \in 1..Len(meta) |-> meta[i][1]],
     image_shape |-> [i \in 1..Len(meta) |-> Slice(meta[i], 1, 4)],
     window |-> [i \in 1..Len(meta) |-> Slice(meta[i], 4, 8)],
     active_class_ids |->
         [i \in 1..Len(meta) |-> Slice(meta[i], 8, Len(meta[i]))]]

MetaIdle ==
    /\ meta_args = Idle /\ image_metas = Idle /\ parsed = Idle /\ meta_pc = Idle

MetaInit ==
    /\ meta_args \in NonEmptySeqsUpTo(MetaArgs, MaxBatch)
    /\ image_metas = None
    /\ parsed = None
    /\ meta_pc = "call"

\* compose_image_meta per image, then np.stack(image_metas) (mold_inputs)
ComposeImageMetas ==
    /\ meta_pc = "call"
    /\ image_metas' =
           [i \in 1..Len(meta_args) |->
               compose_image_meta(meta_args[i].image_id,
                                  meta_args[i].image_shape,
                                  meta_args[i].window,
                                  meta_args[i].active_class_ids)]
    /\ meta_pc' = "composed"
    /\ UNCHANGED <<meta_args, parsed>>
    /\ UNCHANGED <<nms_vars, iou_vars, delta_vars, unmold_vars>>
    /\ UNCHANGED <<resize_vars, domain_vars>>

ParseImageMeta ==
    /\ meta_pc = "composed"
    /\ parsed' = parse_image_meta(image_metas)
    /\ meta_pc' = "done"
    /\ UNCHANGED <<meta_args, image_metas>>
    /\ UNCHANGED <<nms_vars, iou_vars, delta_vars, unmold_vars>>
    /\ UNCHANGED <<resize_vars, domain_vars>>

MetaNext == ComposeImageMetas \/ ParseImageMeta

----------------------------------------------------------------------------
(* apply_box_deltas / box_refinement *)

\* Coordinates are exact rationals <<n, d>>, d > 0.  The size deltas dh and
\* dw are drawn as whole multiples of ln 2 and stored as that multiple k, so
\* that exp and log stay exact: exp(k ln 2) = 2^k and log(2^k) = k ln 2.
\* log of a ratio that is no power of two has no such form: NoLog.

RECURSIVE Gcd(_, _)
Gcd(a, b) == IF b = 0 THEN a ELSE Gcd(b, a % b)

Abs(a) == IF a < 0 THEN -a ELSE a

Norm(n, d) ==
    LET g == Gcd(Abs(n), d) IN IF g = 0 THEN <<0, 1>> ELSE <<n \div g, d \div g>>

Rat(n) == <<n, 1>>
RAdd(a, b) == Norm(a[1] * b[2] + b[1] * a[2], a[2] * b[2])
RSub(a, b) == Norm(a[1] * b[2] - b[1] * a[2], a[2] * b[2])
RMul(a, b) == Norm(a[1] * b[1], a[2] * b[2])
\* a / b for b > 0
RDiv(a, b) == Norm(a[1] * b[2], a[2] * b[1])
Half == <<1, 2>>

RECURSIVE Pow2(_)
Pow2(k) == IF k = 0 THEN 1 ELSE 2 * Pow2(k - 1)

\* torch.exp of k ln 2
Exp(k) == IF k >= 0 THEN <<Pow2(k), 1>> ELSE <<1, Pow2(-k)>>

NoLog == "not a power of two"
LogRange == (-8)..8

\* torch.log of a positive rational, as a multiple of ln 2
Log(r) ==
    IF \E k \in LogRange : Exp(k) = r
    THEN CHOOSE k \in LogRange : Exp(k) = r
    ELSE NoLog

MaxBoxCoord == 3     \* anchor coordinates 0..MaxBoxCoord

\* anchors of positive height and width
Anchors ==
    {<<y1, x1, y2, x2>> :
        y1 \in 0..MaxBoxCoord, x1 \in 0..MaxBoxCoord,
        y2 \in 0..MaxBoxCoord, x2 \in 0..MaxBoxCoord}

PositiveAnchors == {b \in Anchors : b[1] < b[3] /\ b[2] < b[4]}

ShiftDeltas == {<<-1, 2>>, <<0, 1>>, <<1, 4>>, <<1, 1>>}
SizeDeltas == {-1, 0, 2}

apply_box_deltas(boxes, d) ==
    LET height0 == RSub(boxes[3], boxes[1])
        width0 == RSub(boxes[4], boxes[2])
        center_y0 == RAdd(boxes[1], RMul(Half, height0))
        center_x0 == RAdd(boxes[2], RMul(Half, width0))
        center_y == RAdd(center_y0, RMul(d[1], height0))
        center_x == RAdd(center_x0, RMul(d[2], width0))
        height == RMul(height0, Exp(d[3]))
        width == RMul(width0, Exp(d[4]))
        y1 == RSub(center_y, RMul(Half, height))
        x1 == RSub(center_x, RMul(Half, width))
        y2 == RAdd(y1, height)
        x2 == RAdd(x1, width)
    IN  <<y1, x1, y2, x2>>

\* box_refinement with the centre shift divided by the target's size
box_refinement_by_gt(box, gt_box) ==
    LET height == RSub(box[3], box[1])
        width == RSub(box[4], box[2])
        center_y == RAdd(box[1], RMul(Half, height))
        center_x == RAdd(box[2], RMul(Half, width))
        gt_height == RSub(gt_box[3], gt_box[1])
        gt_width == RSub(gt_box[4], gt_box[2])
        gt_center_y == RAdd(gt_box[1], RMul(Half, gt_height))
        gt_center_x == RAdd(gt_box[2], RMul(Half, gt_width))
        dy == RDiv(RSub(gt_center_y, center_y), gt_height)
        dx == RDiv(RSub(gt_center_x, center_x), gt_width)
        dh == Log(RDiv(gt_height, height))
        dw == Log(RDiv(gt_width, width))
    IN  <<dy, dx, dh, dw>>

box_refinement(box, gt_box) ==
    LET height == RSub(box[3], box[1])
        width == RSub(box[4], box[2])
        center_y == RAdd(box[1], RMul(Half, height))
        center_x == RAdd(box[2], RMul(Half, width))
        gt_height == RSub(gt_box[3], gt_box[1])
        gt_width == RSub(gt_box[4], gt_box[2])
        gt_center_y == RAdd(gt_box[1], RMul(Half, gt_height))
        gt_center_x == RAdd(gt_box[2], RMul(Half, gt_width))
        dy == RDiv(RSub(gt_center_y, center_y), height)
        dx == RDiv(RSub(gt_center_x, center_x), width)
        dh == Log(RDiv(gt_height, height))
        dw == Log(RDiv(gt_width, width))
    IN  <<dy, dx, dh, dw>>

DeltaIdle ==
    /\ anchor = Idle /\ deltas = Idle /\ refined = Idle
    /\ recovered = Idle /\ delta_pc = Idle

DeltaInit ==
    /\ \E b \in PositiveAnchors :
           anchor = <<Rat(b[1]), Rat(b[2]), Rat(b[3]), Rat(b[4])>>
    /\ deltas \in ShiftDeltas \X ShiftDeltas \X SizeDeltas \X SizeDeltas
    /\ refined = None
    /\ recovered = None
    /\ delta_pc = "call"

ApplyBoxDeltas ==
    /\ delta_pc = "call"
    /\ refined' = apply_box_deltas(anchor, deltas)
    /\ delta_pc' = "applied"
    /\ UNCHANGED <<anchor, deltas, recovered>>
    /\ UNCHANGED <<nms_vars, iou_vars, meta_vars, unmold_vars>>
    /\ UNCHANGED <<resize_vars, domain_vars>>

BoxRefinement ==
    /\ delta_pc = "applied"
    /\ recovered' = box_refinement(anchor, refined)
    /\ delta_pc' = "done"
    /\ UNCHANGED <<anchor, deltas, refined>>
    /\ UNCHANGED <<nms_vars, iou_vars, meta_vars, unmold_vars>>
    /\ UNCHANGED <<resize_vars, domain_vars>>

DeltaNext == ApplyBoxDeltas \/ BoxRefinement

----------------------------------------------------------------------------
(* to_img_domain / remove_zero_area / unmold_masks / unmold_detections *)

MaxDetections == 3     \* at most this many rows in detections
NumClasses == 2        \* channels of mrcnn_mask

\* The canvas window and the original image: the window is 4 x 4 at offset
\* (2, 1), the image 6 x 10, so that the scales are 1.5 along y and 2.5
\* along x (both exact in binary floating point).
UnmoldWindows == {<<2, 1, 6, 5>>}
UnmoldShapes == {<<6, 10, 3>>}

\* (start, end) of a raw box along one axis, relative to the window origin;
\* the detector clips its boxes to the window
UnmoldYSpans == {<<0, 0>>, <<1, 2>>, <<1, 4>>}
UnmoldXSpans == {<<1, 1>>, <<0, 1>>, <<2, 4>>}

\* (class_id, score) of a raw detection
UnmoldLabels == {<<0, 1>>, <<1, 2>>}

DetectionRows(w) ==
    {<<w[1] + ys[1], w[2] + xs[1], w[1] + ys[2], w[2] + xs[2], l[1], l[2]>> :
        ys \in UnmoldYSpans, xs \in UnmoldXSpans, l \in UnmoldLabels}

\* tensor.to(torch.int32) of a rational: truncation toward zero (the values
\* of the model stay far inside 32 bits)
ToInt32(q) == IF q[1] >= 0 THEN q[1] \div q[2] ELSE -((-q[1]) \div q[2])

\* to_img_domain without the shift to the window's corner
to_img_domain_unshifted(boxes, win, shape) ==
    LET h_scale == RDiv(Rat(shape[1]), Rat(win[3] - win[1]))
        w_scale == RDiv(Rat(shape[2]), Rat(win[4] - win[2]))
        scales == <<h_scale, w_scale, h_scale, w_scale>>
    IN  [i \in 1..Len(boxes) |->
            [c \in 1..4 |-> RMul(Rat(boxes[i][c]), scales[c])]]

\* boxes: [N, 4] rows of integers; the result rows hold rationals
to_img_domain(boxes, win, shape) ==
    LET h_scale == RDiv(Rat(shape[1]), Rat(win[3] - win[1]))
        w_scale == RDiv(Rat(shape[2]), Rat(win[4] - win[2]))
        shift == <<win[1], win[2]>>
        scales == <<h_scale, w_scale, h_scale, w_scale>>
        shifts == <<shift[1], shift[2], shift[1], shift[2]>>
    IN  [i \in 1..Len(boxes) |->
            [c \in 1..4 |-> RMul(Rat(boxes[i][c] - shifts[c]), scales[c])]]

\* tensor[keep_ix]
Gather(t, ix) == [k \in 1..Len(ix) |-> t[ix[k]]]

\* torch.nonzero(flags == 0)[:, 0]: the positions holding 0, ascending
RECURSIVE ZeroPositions(_, _)
ZeroPositions(flags, from) ==
    IF from > Len(flags) THEN <<>>
    ELSE (IF flags[from] = 0 THEN <<from>> ELSE <<>>)
             \o ZeroPositions(flags, from + 1)

Flag(b) == IF b THEN 1 ELSE 0

NoPositiveAreaError == "NoPositiveAreaError"

Raised(e) == [status |-> e]

\* remove_zero_area with the too_thin test written `dy < 2.0`
remove_zero_area_lax(boxes, class_ids, masks, scores) ==
    LET dx == [i \in 1..Len(boxes) |-> boxes[i][3] - boxes[i][1]]
        dy == [i \in 1..Len(boxes) |-> boxes[i][4] - boxes[i][2]]
        skip == [i \in 1..Len(boxes) |->
                    Flag(dx[i] * dy[i] <= 0) + Flag(dx[i] <= 2)
                        + Flag(dy[i] < 2)]
        keep_ix == ZeroPositions(skip, 1)
    IN  IF Len(keep_ix) = 0 THEN Raised(NoPositiveAreaError)
        ELSE [status |-> "ok", boxes |-> Gather(boxes, keep_ix),
              class_ids |-> Gather(class_ids, keep_ix),
              masks |-> Gather(masks, keep_ix),
              scores |-> Gather(scores, keep_ix)]

\* remove_zero_area returning the empty selection instead of raising
remove_zero_area_silent(boxes, class_ids, masks, scores) ==
    LET dx == [i \in 1..Len(boxes) |-> boxes[i][3] - boxes[i][1]]
        dy == [i \in 1..Len(boxes) |-> boxes[i][4] - boxes[i][2]]
        skip == [i \in 1..Len(boxes) |->
                    Flag(dx[i] * dy[i] <= 0) + Flag(dx[i] <= 2)
                        + Flag(dy[i] <= 2)]
        keep_ix == ZeroPositions(skip, 1)
    IN  [status |-> "ok", boxes |-> Gather(boxes, keep_ix),
         class_ids |-> Gather(class_ids, keep_ix),
         masks |-> Gather(masks, keep_ix),
         scores |-> Gather(scores, keep_ix)]

\* boxes are int32 rows; dx is the height and dy the width of a box
remove_zero_area(boxes, class_ids, masks, scores) ==
    LET dx == [i \in 1..Len(boxes) |-> boxes[i][3] - boxes[i][1]]
        dy == [i \in 1..Len(boxes) |-> boxes[i][4] - boxes[i][2]]
        too_small == [i \in 1..Len(boxes) |-> Flag(dx[i] * dy[i] <= 0)]
        too_short == [i \in 1..Len(boxes) |-> Flag(dx[i] <= 2)]
        too_thin == [i \in 1..Len(boxes) |-> Flag(dy[i] <= 2)]
        skip == [i \in 1..Len(boxes) |-> too_small[i] + too_short[i] + too_thin[i]]
        positive_area == ZeroPositions(skip, 1)
        keep_ix == positive_area
    IN  IF Len(positive_area) = 0 THEN Raised(NoPositiveAreaError)
        ELSE IF Len(keep_ix) # Len(boxes)
        THEN [status |-> "ok", boxes |-> Gather(boxes, keep_ix),
              class_ids |-> Gather(class_ids, keep_ix),
              masks |-> Gather(masks, keep_ix),
              scores |-> Gather(scores, keep_ix)]
        ELSE [status |-> "ok", boxes |-> boxes, class_ids |-> class_ids,
              masks |-> masks, scores |-> scores]

\* the full-size mask: the small mask resized to the box and pasted at it
unmold_mask(mask, bbox, shape2) ==
    [mask |-> mask, pasted_at |-> bbox, canvas |-> shape2]

unmold_masks(masks, boxes, shape2) ==
    [i \in 1..Len(masks) |-> unmold_mask(masks[i], boxes[i], shape2)]

\* an exception raised by remove_zero_area leaves unmold_boxes as it is
unmold_boxes(boxes, class_ids, masks, shape, win, scores) ==
    LET image_shape2 == <<shape[1], shape[2]>>
        in_image == to_img_domain(boxes, win, shape)
        int_boxes == [i \in 1..Len(boxes) |->
                         [c \in 1..4 |-> ToInt32(in_image[i][c])]]
        kept == remove_zero_area(int_boxes, class_ids, masks, scores)
    IN  IF kept.status # "ok" THEN kept
        ELSE [status |-> "ok", boxes |-> kept.boxes,
              class_ids |-> kept.class_ids, scores |-> kept.scores,
              masks |-> unmold_masks(kept.masks, kept.boxes, image_shape2)]

unmold_detections(dts, mask_tensor, shape, win) ==
    LET N == Len(dts)
        boxes == [i \in 1..N |-> SubSeq(dts[i], 1, 4)]
        class_ids == [i \in 1..N |-> dts[i][5]]
        scores == [i \in 1..N |-> dts[i][6]]
        \* class ids are 0-based channel numbers
        masks == [i \in 1..N |-> mask_tensor[i][class_ids[i] + 1]]
    IN  unmold_boxes(boxes, class_ids, masks, shape, win, scores)

UnmoldIdle ==
    /\ detections = Idle /\ mrcnn_mask = Idle /\ image_shape = Idle
    /\ window = Idle /\ unmolded = Idle /\ unmold_pc = Idle

UnmoldInit ==
    /\ window \in UnmoldWindows
    /\ image_shape \in UnmoldShapes
    /\ detections \in SeqsUpTo(DetectionRows(window), MaxDetections)
    /\ mrcnn_mask =
           [i \in 1..Len(detections) |->
               [c \in 1..NumClasses |-> <<"mask", i, c - 1>>]]
    /\ unmolded = None
    /\ unmold_pc = "call"

UnmoldDetections ==
    /\ unmold_pc = "call"
    /\ unmolded' = unmold_detections(detections, mrcnn_mask, image_shape, window)
    /\ unmold_pc' = "done"
    /\ UNCHANGED <<detections, mrcnn_mask, image_shape, window>>
    /\ UNCHANGED <<nms_vars, iou_vars, meta_vars, delta_vars>>
    /\ UNCHANGED <<resize_vars, domain_vars>>

UnmoldNext == UnmoldDetections

----------------------------------------------------------------------------
(* resize_image / resize_mask: an image or mask is its shape <<h, w>>; the  *)
(* pixel values and the dtype are not modelled.  An argument that is not    *)
(* provided (None) is 0, which Python's "if min_dim" treats the same way.   *)

RLeq(a, b) == a[1] * b[2] <= b[1] * a[2]
RMax(a, b) == IF RLeq(a, b) THEN b ELSE a

\* Python's round() of a non-negative number: halves go to the even integer
Round(q) ==
    LET f == q[1] \div q[2]
        twice == 2 * (q[1] - f * q[2])
    IN  IF twice < q[2] THEN f
        ELSE IF twice > q[2] THEN f + 1
        ELSE IF f % 2 = 0 THEN f ELSE f + 1

\* int() of a non-negative number
Trunc(q) == q[1] \div q[2]

\* random.randint(a, b): every integer of a..b
RandInt(a, b) == a..b

NoCrop == << >>
NoPadding == <<<<0, 0>>, <<0, 0>>, <<0, 0>>>>
ValueError == "ValueError"
AssertionError == "AssertionError"
ModeNotSupported == "Exception: Mode not supported"

ResizeImages == {<<100, 50>>, <<50, 100>>, <<64, 64>>, <<3, 5>>, <<7, 7>>}
ResizeMinDims == {0, 4, 64, 100, 128}
ResizeMaxDims == {8, 128, 192}
ResizeMinScales == {<<0, 1>>, <<3, 2>>, <<2, 1>>}
ResizeModes == {"none", "square", "pad64", "crop", "tile"}

\* pad64 and crop compute with min_dim, so it is provided there; the images
\* given to crop are the small ones, which keeps the number of crops small
ResizeArgs ==
    {a \in [image : ResizeImages, min_dim : ResizeMinDims,
            max_dim : ResizeMaxDims, min_scale : ResizeMinScales,
            mode : ResizeModes] :
        /\ a.mode \in {"pad64", "crop"} => a.min_dim > 0
        /\ a.mode = "crop" => Max(a.image[1], a.image[2]) <= 7}

\* the result tuple (image, window, scale, padding, crop)
Returned(shape, win, scale, padding, crop) ==
    [status |-> "ok", shape |-> shape, window |-> win, scale |-> scale,
     padding |-> padding, crop |-> crop]

\* InitialScale that scales the larger side to min_dim in every mode
InitialScaleByLargerSide(h, w, min_dim, min_scale, mode) ==
    IF min_dim # 0 THEN Norm(min_dim, Max(h, w)) ELSE Rat(1)

\* the scale before the max_dim cap
InitialScale(h, w, min_dim, min_scale, mode) ==
    LET scale0 == Rat(1)
        scale1 == IF min_dim # 0 /\ mode # "pad64"
                  THEN RMax(Rat(1), Norm(min_dim, Min(h, w)))
                  ELSE scale0
        scale2 == IF min_scale # <<0, 1>> THEN RMax(scale1, min_scale)
                  ELSE scale1
    IN  IF mode = "pad64" THEN Norm(min_dim, Max(h, w)) ELSE scale2

\* "Does it exceed max dim?"
CappedScale(scale, h, w, max_dim, mode) ==
    LET image_max == Max(h, w)
    IN  IF max_dim # 0 /\ mode = "square"
           /\ Round(RMul(Rat(image_max), scale)) > max_dim
        THEN Norm(max_dim, image_max)
        ELSE scale

\* the shape after skimage.transform.resize, called only when scale != 1
ScaledShape(h, w, scale) ==
    IF scale # Rat(1)
    THEN <<Round(RMul(Rat(h), scale)), Round(RMul(Rat(w), scale))>>
    ELSE <<h, w>>

\* Pads with the odd pixel before the image instead of after it
PadsExtraFirst(target, size) ==
    <<target - size - ((target - size) \div 2), (target - size) \div 2>>

\* (top_pad, bottom_pad) or (left_pad, right_pad) up to the size target
Pads(target, size) ==
    <<(target - size) \div 2, target - size - ((target - size) \div 2)>>

\* the pad64 precondition left out
Pad64PreconditionOff(min_dim) == TRUE

\* assert min_dim % 64 == 0
Pad64Precondition(min_dim) == min_dim % 64 = 0

\* np.pad(image, padding, mode='constant'): negative widths are refused
NpPad(shape, padding) ==
    IF \E k \in 1..2 : padding[k][1] < 0 \/ padding[k][2] < 0
    THEN Raised(ValueError)
    ELSE Returned(<<padding[1][1] + shape[1] + padding[1][2],
                    padding[2][1] + shape[2] + padding[2][2]>>,
                  NoCrop, NoCrop, padding, NoCrop)

\* the length of a[lo:hi] for an axis of length len
SliceLen(len, lo, hi) == Max(0, Min(hi, len) - Min(lo, len))

\* the window of a crop, moved to where the crop was taken
CropWindowAtOffset(y, x, min_dim) == <<y, x, y + min_dim, x + min_dim>>

\* window = (0, 0, min_dim, min_dim)
CropWindow(y, x, min_dim) == <<0, 0, min_dim, min_dim>>

\* every outcome the call can have: one, except for the random crop
resize_image(image, min_dim, max_dim, min_scale, mode) ==
    LET h0 == image[1]
        w0 == image[2]
        scale == CappedScale(InitialScale(h0, w0, min_dim, min_scale, mode),
                             h0, w0, max_dim, mode)
        scaled == ScaledShape(h0, w0, scale)
        h == scaled[1]
        w == scaled[2]
    IN  IF mode = "none"
        THEN {Returned(image, <<0, 0, h0, w0>>, Rat(1), NoPadding, NoCrop)}
        ELSE IF mode = "square"
        THEN LET tb == Pads(max_dim, h)
                 lr == Pads(max_dim, w)
                 padding == <<tb, lr, <<0, 0>>>>
                 padded == NpPad(scaled, padding)
             IN  IF padded.status # "ok" THEN {padded}
                 ELSE {Returned(padded.shape,
                                <<tb[1], lr[1], h + tb[1], w + lr[1]>>,
                                scale, padding, NoCrop)}
        ELSE IF mode = "pad64"
        THEN IF ~Pad64Precondition(min_dim) THEN {Raised(AssertionError)}
             ELSE
             LET tb == IF min_dim # h THEN Pads(min_dim, h) ELSE <<0, 0>>
                 lr == IF max_dim # w THEN Pads(max_dim, w) ELSE <<0, 0>>
                 padding == <<tb, lr, <<0, 0>>>>
                 padded == NpPad(scaled, padding)
             IN  IF padded.status # "ok" THEN {padded}
                 ELSE {Returned(padded.shape,
                                <<tb[1], lr[1], h + tb[1], w + lr[1]>>,
                                scale, padding, NoCrop)}
        ELSE IF mode = "crop"
        THEN IF RandInt(0, h - min_dim) = {} \/ RandInt(0, w - min_dim) = {}
             THEN {Raised(ValueError)}
             ELSE {Returned(<<SliceLen(h, y, y + min_dim),
                              SliceLen(w, x, x + min_dim)>>,
                            CropWindow(y, x, min_dim), scale, NoPadding,
                            <<y, x, min_dim, min_dim>>) :
                      y \in RandInt(0, h - min_dim),
                      x \in RandInt(0, w - min_dim)}
        ELSE {Raised(ModeNotSupported)}

\* the output shape of scipy.ndimage.zoom computed with int()
zoom_shape_truncating(mask, scale) ==
    <<Trunc(RMul(Rat(mask[1]), scale)), Trunc(RMul(Rat(mask[2]), scale))>>

\* the output shape of scipy.ndimage.zoom(mask, zoom=[scale, scale, 1]),
\* computed with round()
zoom_shape(mask, scale) ==
    <<Round(RMul(Rat(mask[1]), scale)), Round(RMul(Rat(mask[2]), scale))>>

\* the shape of the mask resize_mask returns, or the exception
resize_mask(mask, scale, padding, crop) ==
    LET zoomed == zoom_shape(mask, scale)
    IN  IF crop # NoCrop
        THEN [status |-> "ok",
              shape |-> <<SliceLen(zoomed[1], crop[1], crop[1] + crop[3]),
                          SliceLen(zoomed[2], crop[2], crop[2] + crop[4])>>]
        ELSE LET padded == NpPad(zoomed, padding)
             IN  IF padded.status # "ok" THEN padded
                 ELSE [status |-> "ok", shape |-> padded.shape]

ResizeIdle ==
    /\ resize_args = Idle /\ resize_then = Idle /\ resized = Idle /\ resized_again = Idle
    /\ other_max_dim = Idle /\ resized_other_max = Idle
    /\ resized_mask = Idle /\ resize_pc = Idle

ResizeInit ==
    /\ resize_args \in ResizeArgs
    /\ resize_then \in {"again", "other", "mask"}
    /\ resized = None
    /\ resized_again = None
    /\ other_max_dim = None
    /\ resized_other_max = None
    /\ resized_mask = None
    /\ resize_pc = "call"

ResizeImage ==
    /\ resize_pc = "call"
    /\ resized' \in resize_image(resize_args.image, resize_args.min_dim,
                                 resize_args.max_dim, resize_args.min_scale,
                                 resize_args.mode)
    /\ resize_pc' = "resized"
    /\ UNCHANGED <<resize_args, resize_then, resized_again, resized_mask>>
    /\ UNCHANGED <<other_max_dim, resized_other_max>>
    /\ UNCHANGED <<nms_vars, iou_vars, meta_vars, delta_vars, unmold_vars>>
    /\ UNCHANGED domain_vars

\* a second call with the same arguments
ResizeImageAgain ==
    /\ resize_pc = "resized" /\ resize_then = "again"
    /\ resized_again' \in resize_image(resize_args.image, resize_args.min_dim,
                                       resize_args.max_dim,
                                       resize_args.min_scale, resize_args.mode)
    /\ resize_pc' = "again"
    /\ UNCHANGED <<resize_args, resize_then, resized, resized_mask>>
    /\ UNCHANGED <<other_max_dim, resized_other_max>>
    /\ UNCHANGED <<nms_vars, iou_vars, meta_vars, delta_vars, unmold_vars>>
    /\ UNCHANGED domain_vars

\* a call that differs only in max_dim
ResizeImageOtherMaxDim ==
    /\ resize_pc = "resized" /\ resize_then = "other"
    /\ \E m \in ResizeMaxDims \ {resize_args.max_dim} :
           /\ other_max_dim' = m
           /\ resized_other_max' \in
                  resize_image(resize_args.image, resize_args.min_dim, m,
                               resize_args.min_scale, resize_args.mode)
    /\ resize_pc' = "other"
    /\ UNCHANGED <<resize_args, resize_then, resized, resized_again>>
    /\ UNCHANGED resized_mask
    /\ UNCHANGED <<nms_vars, iou_vars, meta_vars, delta_vars, unmold_vars>>
    /\ UNCHANGED domain_vars

\* resize_mask(mask, scale, padding, crop) with what resize_image returned
ResizeMask ==
    /\ resize_pc = "resized" /\ resize_then = "mask"
    /\ resized.status = "ok"
    /\ resized_mask' = resize_mask(resize_args.image, resized.scale,
                                   resized.padding, resized.crop)
    /\ resize_pc' = "masked"
    /\ UNCHANGED <<resize_args, resize_then, resized, resized_again>>
    /\ UNCHANGED <<other_max_dim, resized_other_max>>
    /\ UNCHANGED <<nms_vars, iou_vars, meta_vars, delta_vars, unmold_vars>>
    /\ UNCHANGED domain_vars

ResizeNext ==
    \/ ResizeImage
    \/ ResizeImageAgain
    \/ ResizeImageOtherMaxDim
    \/ ResizeMask

----------------------------------------------------------------------------
(* to_img_domain on its own *)

MaxDomainBoxes == 2

DomainWindows == {<<0, 0, 10, 10>>, <<2, 1, 6, 5>>}
DomainShapes == {<<100, 100, 3>>, <<6, 10, 3>>}
DomainNearOffsets == {0, 1}
DomainFarOffsets == {2, 3}

\* the window itself and boxes inside it
DomainBoxes(w) ==
    {w} \cup
    {<<w[1] + a, w[2] + b, w[1] + c, w[2] + d>> :
        a \in DomainNearOffsets, b \in DomainNearOffsets,
        c \in DomainFarOffsets, d \in DomainFarOffsets}

DomainIdle ==
    /\ domain_boxes = Idle /\ domain_window = Idle /\ domain_shape = Idle
    /\ in_img_domain = Idle /\ domain_pc = Idle

DomainInit ==
    /\ domain_window \in DomainWindows
    /\ domain_shape \in DomainShapes
    /\ domain_boxes \in NonEmptySeqsUpTo(DomainBoxes(domain_window),
                                         MaxDomainBoxes)
    /\ in_img_domain = None
    /\ domain_pc = "call"

ToImgDomain ==
    /\ domain_pc = "call"
    /\ in_img_domain' = to_img_domain(domain_boxes, domain_window, domain_shape)
    /\ domain_pc' = "done"
    /\ UNCHANGED <<domain_boxes, domain_window, domain_shape>>
    /\ UNCHANGED <<nms_vars, iou_vars, meta_vars, delta_vars, unmold_vars>>
    /\ UNCHANGED resize_vars

DomainNext == ToImgDomain

----------------------------------------------------------------------------
(* Specifications *)

vars ==
    <<nms_vars, iou_vars, meta_vars, delta_vars, unmold_vars, resize_vars,
      domain_vars>>

\* each specification runs one component; the others' variables stay idle
InitNms ==
    /\ NmsInit /\ IouIdle /\ MetaIdle /\ DeltaIdle /\ UnmoldIdle
    /\ ResizeIdle /\ DomainIdle

InitIou ==
    /\ IouInit /\ NmsIdle /\ MetaIdle /\ DeltaIdle /\ UnmoldIdle
    /\ ResizeIdle /\ DomainIdle

InitMeta ==
    /\ MetaInit /\ NmsIdle /\ IouIdle /\ DeltaIdle /\ UnmoldIdle
    /\ ResizeIdle /\ DomainIdle

InitDelta ==
    /\ DeltaInit /\ NmsIdle /\ IouIdle /\ MetaIdle /\ UnmoldIdle
    /\ ResizeIdle /\ DomainIdle

InitUnmold ==
    /\ UnmoldInit /\ NmsIdle /\ IouIdle /\ MetaIdle /\ DeltaIdle
    /\ ResizeIdle /\ DomainIdle

SpecNms == InitNms /\ [][NmsNext]_vars

\* the sequential path alone
SpecNmsCpu == InitNms /\ [][PthNmsCpu]_vars

SpecIou == InitIou /\ [][IouNext]_vars

SpecMeta == InitMeta /\ [][MetaNext]_vars

SpecDelta == InitDelta /\ [][DeltaNext]_vars

SpecUnmold == InitUnmold /\ [][UnmoldNext]_vars

InitResize ==
    /\ ResizeInit /\ NmsIdle /\ IouIdle /\ MetaIdle /\ DeltaIdle /\ UnmoldIdle
    /\ DomainIdle

SpecResize == InitResize /\ [][ResizeNext]_vars

InitDomain ==
    /\ DomainInit /\ NmsIdle /\ IouIdle /\ MetaIdle /\ DeltaIdle /\ UnmoldIdle
    /\ ResizeIdle

SpecDomain == InitDomain /\ [][DomainNext]_vars

----------------------------------------------------------------------------
(* Claims about pth_nms *)

\* IoU of two rows of the caller's dets, (y1, x1, y2, x2) with inclusive
\* pixel extents, compared with t
RowArea(r) == (r[3] - r[1] + 1) * (r[4] - r[2] + 1)

RowInter(a, b) ==
    Max(0, Min(a[3], b[3]) - Max(a[1], b[1]) + 1)
        * Max(0, Min(a[4], b[4]) - Max(a[2], b[2]) + 1)

IoUExceeds(a, b, t) ==
    RowInter(a, b) * t[2] > t[1] * (RowArea(a) + RowArea(b) - RowInter(a, b))

CpuReturned == nms_pc \in {"cpu_done", "done"}
CudaReturned == nms_pc = "done"

NoOverlapIn(res) ==
    \A a, b \in Range(res) : a # b => ~IoUExceeds(dets[a], dets[b], thresh)

\* C1: the index set pth_nms returns (on either device) never contains two
\* distinct boxes whose IoU exceeds the threshold.
C1_KeptPairwiseBelowThreshold ==
    /\ CpuReturned => NoOverlapIn(keep_cpu)
    /\ CudaReturned => NoOverlapIn(keep_cuda)

Score(i) == dets[i][5]

DistinctScores == \A i, j \in 1..Len(dets) : i # j => Score(i) # Score(j)

\* C2: for the same boxes, scores and threshold the CPU path and the CUDA
\* path return the same set of indices into the caller's ordering.  Stated
\* for pairwise different scores, where the score order is unique, so that
\* a difference cannot come from the two sorts ordering equal scores
\* differently.
C2_CpuCudaSameSet ==
    (CudaReturned /\ DistinctScores) => Range(keep_cpu) = Range(keep_cuda)

----------------------------------------------------------------------------
(* Claims about compute_iou / compute_overlaps *)

IouDone == iou_pc = "done"

BoxArea(b) == (b[3] - b[1]) * (b[4] - b[2])

\* the two boxes share no interior point: separated along y or along x
Disjoint(a, b) ==
    \/ a[3] <= b[1] \/ b[3] <= a[1]
    \/ a[4] <= b[2] \/ b[4] <= a[2]

SymmetricAndBounded(i, j) ==
    /\ FloatEq(overlaps12[i][j], overlaps21[j][i])
    /\ FloatInUnitInterval(overlaps12[i][j])
    /\ FloatInUnitInterval(overlaps21[j][i])

\* C9 as stated: for any two boxes iou(a, b) == iou(b, a), the value lies in
\* [0, 1], and compute_overlaps(A, B)[i][j] == compute_overlaps(B, A)[j][i].
C9_Original_SymmetricBounded ==
    IouDone =>
        \A i \in 1..Len(boxes1), j \in 1..Len(boxes2) : SymmetricAndBounded(i, j)

\* C9 amended: the same for every pair of boxes of which at least one has
\* positive area (two zero-area boxes divide 0 by 0).
C9_SymmetricBounded ==
    IouDone =>
        \A i \in 1..Len(boxes1), j \in 1..Len(boxes2) :
            (BoxArea(boxes1[i]) > 0 \/ BoxArea(boxes2[j]) > 0)
                => SymmetricAndBounded(i, j)

\* C9 witness: a 2 x 2 overlap matrix with an entry strictly between 0 and 1
\* and both transposes computed
C9_Witness ==
    /\ IouDone
    /\ Len(boxes1) = 2 /\ Len(boxes2) = 2
    /\ boxes1[1] # boxes1[2]
    /\ \E i, j \in 1..2 :
           /\ overlaps12[i][j][2] > 0
           /\ 0 < overlaps12[i][j][1]
           /\ overlaps12[i][j][1] < overlaps12[i][j][2]

IouStarted == iou_pc \in {"first_done", "done"}

\* C10 as stated: compute_iou is 1 for two identical boxes and 0 for two
\* boxes that do not overlap.
C10_Original_IdenticalOneDisjointZero ==
    IouStarted =>
        \A i \in 1..Len(boxes1), j \in 1..Len(boxes2) :
            /\ boxes1[i] = boxes2[j] => FloatIsInt(overlaps12[i][j], 1)
            /\ Disjoint(boxes1[i], boxes2[j]) => FloatIsInt(overlaps12[i][j], 0)

\* C10 amended: compute_iou is 1 for two identical boxes of positive area
\* and 0 for two non-overlapping boxes of which at least one has positive
\* area.
C10_IdenticalOneDisjointZero ==
    IouStarted =>
        \A i \in 1..Len(boxes1), j \in 1..Len(boxes2) :
            /\ (boxes1[i] = boxes2[j] /\ BoxArea(boxes1[i]) > 0)
                   => FloatIsInt(overlaps12[i][j], 1)
            /\ (/\ Disjoint(boxes1[i], boxes2[j])
                /\ (BoxArea(boxes1[i]) > 0 \/ BoxArea(boxes2[j]) > 0))
                   => FloatIsInt(overlaps12[i][j], 0)

\* C10 witness: one matrix holding both cases, an identical pair of positive
\* area and a disjoint pair of positive area
C10_Witness ==
    /\ IouStarted
    /\ \E i \in 1..Len(boxes1), j \in 1..Len(boxes2) :
           boxes1[i] = boxes2[j] /\ BoxArea(boxes1[i]) > 0
    /\ \E i \in 1..Len(boxes1), j \in 1..Len(boxes2) :
           /\ Disjoint(boxes1[i], boxes2[j])
           /\ BoxArea(boxes1[i]) > 0 /\ BoxArea(boxes2[j]) > 0

----------------------------------------------------------------------------
(* Claims about the image meta codec *)

----------------------------------------------------------------------------
(* Claims about apply_box_deltas / box_refinement *)

\* C8: for every box b of positive height and width and all deltas d,
\* box_refinement(b, apply_box_deltas(b, d)) = d (exactly, in exact
\* arithmetic).
C8_DeltaRoundTrip ==
    delta_pc = "done" => recovered = deltas

\* C8 witness: a round trip that moved and resized the box along both axes
C8_Witness ==
    /\ delta_pc = "done"
    /\ deltas[1] # <<0, 1>> /\ deltas[2] # <<0, 1>>
    /\ deltas[3] # 0 /\ deltas[4] # 0 /\ deltas[3] # deltas[4]
    /\ \A k \in 1..4 : refined[k] # anchor[k]

----------------------------------------------------------------------------
(* Claims about unmold_detections *)

Unmolded == unmold_pc = "done"

\* the integer box of detection i in the original image
ImageBox(i) ==
    LET b == to_img_domain(<<SubSeq(detections[i], 1, 4)>>, window, image_shape)[1]
    IN  [c \in 1..4 |-> ToInt32(b[c])]

BoxHeight(i) == ImageBox(i)[3] - ImageBox(i)[1]
BoxWidth(i) == ImageBox(i)[4] - ImageBox(i)[2]

Degenerate(i) ==
    BoxHeight(i) * BoxWidth(i) <= 0 \/ BoxHeight(i) <= 2 \/ BoxWidth(i) <= 2

\* the detections that are not degenerate, in input order
ValidDetections ==
    SelectSeq([i \in 1..Len(detections) |-> i], LAMBDA i : ~Degenerate(i))

\* C4: when some detection is valid, unmold_detections returns exactly the
\* detections whose image box has positive area, width > 2 and height > 2,
\* in input order; boxes, class ids, scores and masks have that one length
\* and entry k of each comes from the k-th valid detection.
C4_ReturnsValidDetectionsAligned ==
    (Unmolded /\ Len(ValidDetections) > 0) =>
        /\ unmolded.status = "ok"
        /\ Len(unmolded.boxes) = Len(ValidDetections)
        /\ Len(unmolded.class_ids) = Len(ValidDetections)
        /\ Len(unmolded.scores) = Len(ValidDetections)
        /\ Len(unmolded.masks) = Len(ValidDetections)
        /\ \A k \in 1..Len(ValidDetections) :
               LET i == ValidDetections[k]
               IN  /\ unmolded.boxes[k] = ImageBox(i)
                   /\ unmolded.class_ids[k] = detections[i][5]
                   /\ unmolded.scores[k] = detections[i][6]
                   /\ unmolded.masks[k].mask = <<"mask", i, detections[i][5]>>
                   /\ unmolded.masks[k].pasted_at = ImageBox(i)

\* C4 witness: three raw boxes, the first of zero width, the other two valid
\* and with different labels
C4_Witness ==
    /\ Unmolded
    /\ Len(detections) = 3
    /\ BoxWidth(1) = 0
    /\ ValidDetections = <<2, 3>>
    /\ detections[2][5] # detections[3][5]

\* C5: with zero raw detections unmold_detections returns an empty result
\* and does not raise; NoPositiveAreaError is raised only when at least one
\* detection was supplied and every supplied detection is degenerate.
C5_EmptyInputIsValid ==
    Unmolded =>
        /\ Len(detections) = 0 =>
               /\ unmolded.status = "ok"
               /\ unmolded.boxes = <<>> /\ unmolded.class_ids = <<>>
               /\ unmolded.scores = <<>> /\ unmolded.masks = <<>>
        /\ unmolded.status = NoPositiveAreaError =>
               /\ Len(detections) >= 1
               /\ \A i \in 1..Len(detections) : Degenerate(i)

\* C6: when at least one detection is supplied and all of them are
\* degenerate, unmold_detections ends with NoPositiveAreaError and returns
\* no boxes, class ids, scores or masks.
C6_AllDegenerateRaises ==
    (/\ Unmolded
     /\ Len(detections) >= 1
     /\ \A i \in 1..Len(detections) : Degenerate(i))
        => unmolded = Raised(NoPositiveAreaError)

\* C6 witness: two degenerate detections, one of zero area and one that is
\* only too narrow, and the call has ended
C6_Witness ==
    /\ Unmolded
    /\ Len(detections) = 2
    /\ BoxHeight(1) * BoxWidth(1) = 0
    /\ BoxHeight(2) > 2 /\ BoxWidth(2) \in 1..2
    /\ unmolded.status = NoPositiveAreaError

----------------------------------------------------------------------------
(* resize_image / resize_mask *)

\* resize_image has returned or raised
Resized == resize_pc \in {"resized", "again", "other", "masked"}

\* the height and width resize_image scales the image to
ScaledH == Round(RMul(Rat(resize_args.image[1]), resized.scale))
ScaledW == Round(RMul(Rat(resize_args.image[2]), resized.scale))

\* C11: in square mode resize_image returns an image of exactly
\* max_dim x max_dim; the scaled larger side does not exceed max_dim, every
\* padding amount is >= 0, bottom_pad - top_pad and right_pad - left_pad are
\* 0 or 1, and window = (top_pad, left_pad, top_pad + scaled_h,
\* left_pad + scaled_w).
C11_SquareExactCanvas ==
    (Resized /\ resize_args.mode = "square") =>
        /\ resized.status = "ok"
        /\ resized.shape = <<resize_args.max_dim, resize_args.max_dim>>
        /\ Max(ScaledH, ScaledW) <= resize_args.max_dim
        /\ LET top_pad == resized.padding[1][1]
               bottom_pad == resized.padding[1][2]
               left_pad == resized.padding[2][1]
               right_pad == resized.padding[2][2]
           IN  /\ top_pad >= 0 /\ bottom_pad >= 0
               /\ left_pad >= 0 /\ right_pad >= 0
               /\ bottom_pad - top_pad \in {0, 1}
               /\ right_pad - left_pad \in {0, 1}
               /\ resized.padding[3] = <<0, 0>>
               /\ resized.window =
                      <<top_pad, left_pad, top_pad + ScaledH,
                        left_pad + ScaledW>>

\* C11 witness: a square resize that was capped at max_dim and left an odd
\* number of rows to pad
C11_Witness ==
    /\ Resized /\ resize_args.mode = "square"
    /\ resized.status = "ok"
    /\ resized.scale = Norm(resize_args.max_dim,
                            Max(resize_args.image[1], resize_args.image[2]))
    /\ resized.scale # Rat(1)
    /\ resized.padding[1][2] - resized.padding[1][1] = 1

\* the call of the example: a 100 x 50 image, square mode, max_dim = 128
ExampleCall ==
    /\ Resized /\ resize_args.mode = "square"
    /\ resize_args.image = <<100, 50>> /\ resize_args.max_dim = 128

\* shape 128 x 128, window of ratio 2:1, scale 1.28
ExampleResult ==
    /\ resized.status = "ok"
    /\ resized.shape = <<128, 128>>
    /\ resized.window[3] - resized.window[1] =
           2 * (resized.window[4] - resized.window[2])
    /\ resized.scale = <<32, 25>>

\* C12 as stated: square mode on a 100 x 50 image with max_dim = 128 gives
\* shape 128 x 128, a window of ratio 2:1 and scale = 1.28, whatever min_dim
\* and min_scale are.
C12_Original_ExampleScale == ExampleCall => ExampleResult

\* C12 amended: the same result when min_dim >= 64 is given and min_scale is
\* not.
C12_ExampleScale ==
    (ExampleCall /\ resize_args.min_dim >= 64
        /\ resize_args.min_scale = <<0, 1>>) => ExampleResult

\* C12 witness: the example call with min_dim = 128 has returned
C12_Witness ==
    /\ ExampleCall /\ resize_args.min_dim = 128
    /\ resize_args.min_scale = <<0, 1>>
    /\ resized.status = "ok"

\* both calls ended the same way, with the same shape, window, scale, padding
SameButCrop(a, b) ==
    /\ a.status = b.status
    /\ a.status = "ok" =>
           /\ a.shape = b.shape /\ a.window = b.window
           /\ a.scale = b.scale /\ a.padding = b.padding

\* C13 as stated: in each mode two calls with the same arguments return the
\* same window, scale, padding and crop.
C13_Original_Deterministic ==
    resize_pc = "again" =>
        /\ SameButCrop(resized, resized_again)
        /\ resized.status = "ok" => resized.crop = resized_again.crop

\* C13 amended: two calls with the same arguments end the same way and return
\* the same shape, window, scale and padding in every mode, and the same crop
\* in every mode but crop, whose offset is random.
C13_DeterministicButCrop ==
    resize_pc = "again" =>
        /\ SameButCrop(resized, resized_again)
        /\ (resized.status = "ok" /\ resize_args.mode # "crop") =>
               resized.crop = resized_again.crop

\* C13 witness: two crop calls with the same arguments that took different
\* crops
C13_Witness ==
    /\ resize_pc = "again" /\ resize_args.mode = "crop"
    /\ resized.status = "ok" /\ resized_again.status = "ok"
    /\ resized.crop # resized_again.crop

\* C14: in pad64 mode two calls that differ only in max_dim return the same
\* output shape, window, scale and padding.
C14_Pad64IgnoresMaxDim ==
    (resize_pc = "other" /\ resize_args.mode = "pad64") =>
        SameButCrop(resized, resized_other_max)

\* C15: in pad64 mode with min_dim not a multiple of 64 resize_image raises
\* and returns nothing, for every image size and max_dim.
C15_Pad64RejectsMinDim ==
    (Resized /\ resize_args.mode = "pad64" /\ resize_args.min_dim % 64 # 0) =>
        resized = Raised(AssertionError)

\* C15 witness: a pad64 call with min_dim = 100 has raised
C15_Witness ==
    /\ Resized /\ resize_args.mode = "pad64" /\ resize_args.min_dim = 100
    /\ resized.status = AssertionError

\* C16: in square, pad64 and crop mode resize_mask, given the scale, padding
\* and crop resize_image returned for an h x w image, returns an h x w mask
\* resized to the height and width of the resized image.
C16_MaskAlignedWithImage ==
    (resize_pc = "masked"
        /\ resize_args.mode \in {"square", "pad64", "crop"}) =>
        /\ resized_mask.status = "ok"
        /\ resized_mask.shape = resized.shape

\* C16 witness: a mask scaled by a non-integer factor and cropped off the
\* origin like its image
C16_Witness ==
    /\ resize_pc = "masked" /\ resize_args.mode = "crop"
    /\ resized.scale[2] # 1
    /\ resized.crop[2] > 0
    /\ resized_mask.shape = resized.shape

----------------------------------------------------------------------------
(* to_img_domain *)

DomainDone == domain_pc = "done"

\* (box - [wy1, wx1, wy1, wx1]) * [H/(wy2-wy1), W/(wx2-wx1), ...], written
\* out per coordinate
Shifted(box) ==
    <<box[1] - domain_window[1], box[2] - domain_window[2],
      box[3] - domain_window[1], box[4] - domain_window[2]>>

AxisScale(c) ==
    IF c \in {1, 3}
    THEN Norm(domain_shape[1], domain_window[3] - domain_window[1])
    ELSE Norm(domain_shape[2], domain_window[4] - domain_window[2])

\* C17: to_img_domain maps each box to
\* (box - [wy1, wx1, wy1, wx1]) * [H/(wy2-wy1), W/(wx2-wx1), H/(wy2-wy1),
\* W/(wx2-wx1)]; with window = (0, 0, 10, 10) and a 100 x 100 image every
\* box is scaled by exactly 10; the window itself goes to (0, 0, H, W).
C17_ToImgDomainFormula ==
    DomainDone =>
        /\ Len(in_img_domain) = Len(domain_boxes)
        /\ \A i \in 1..Len(domain_boxes) : \A c \in 1..4 :
               /\ in_img_domain[i][c] =
                      RMul(Rat(Shifted(domain_boxes[i])[c]), AxisScale(c))
               /\ (/\ domain_window = <<0, 0, 10, 10>>
                   /\ domain_shape[1] = 100 /\ domain_shape[2] = 100) =>
                      in_img_domain[i][c] = Rat(10 * domain_boxes[i][c])
        /\ \A i \in 1..Len(domain_boxes) :
               domain_boxes[i] = domain_window =>
                   /\ in_img_domain[i][1] = Rat(0)
                   /\ in_img_domain[i][2] = Rat(0)
                   /\ in_img_domain[i][3] = Rat(domain_shape[1])
                   /\ in_img_domain[i][4] = Rat(domain_shape[2])

\* C17 witness: a window away from the origin mapped together with a box
\* inside it, at two different scales for the two axes
C17_Witness ==
    /\ DomainDone
    /\ domain_window = <<2, 1, 6, 5>> /\ domain_shape = <<6, 10, 3>>
    /\ Len(domain_boxes) = 2
    /\ domain_boxes[1] = domain_window
    /\ domain_boxes[2] # domain_window
    /\ in_img_domain[1][4] = Rat(10)

----------------------------------------------------------------------------
(* pth_nms, the CUDA path *)

\* C18: on the CUDA path the kernel is handed the boxes in (x1, y1, x2, y2)
\* layout sorted by descending score, and each index the kernel returns is
\* mapped back through the sort permutation, so that every index pth_nms
\* returns names, in the caller's ordering, a box the kernel kept.
C18_KernelGetsSortedBoxes ==
    CudaReturned =>
        /\ \E order \in SortOrders(Column(dets, 4)) :
               gpu_input = SwapAxes(Gather(dets, order))
        /\ LET kept == gpu_nms(gpu_input, thresh)
           IN  /\ Len(keep_cuda) = Len(kept)
               /\ \A k \in 1..Len(kept) :
                      SwapAxes(dets)[keep_cuda[k]] = gpu_input[kept[k]]

====
